---- MODULE Spec2Model ----
(***************************************************************************)
(* Model of crates/noirc_evaluator/src/ssa_refactor.rs: the orchestration  *)
(* of the SSA pipeline (optimize_into_acir) and the circuit assembler      *)
(* (create_circuit).                                                       *)
(*                                                                         *)
(* The passes, the Brillig lowering, the ACIR generator and the ABI        *)
(* generator live in sub-modules that are not part of the file; they are   *)
(* modelled as functions of their arguments.  An SSA module is the term    *)
(* made of the program it was generated from and the list of passes        *)
(* applied to it, so that two modules are equal exactly when they were     *)
(* produced by the same passes in the same order from the same program.    *)
(***************************************************************************)
EXTENDS Integers, Sequences, FiniteSets

\* ------------------------------------------------------------------ bounds
\* Largest number of parameters of main.
MaxParams == 3
\* Number of witness-producing instructions in a non-empty body of main.
MaxBody == 1

\* ----------------------------------------------------------------- domains
\* A parameter occupies one witness (a field) or two (a two-element array).
Widths == {1, 2}
Param == [width : Widths, public : BOOLEAN]
Signatures == UNION {[1..n -> Param] : n \in 0..MaxParams}
RuntimeTypes == {"Acir", "Brillig"}
RuntimeErrors == {"NoCircuitRepresentation", "UnsupportedConstruct"}
Lowerings == {"ok"} \cup RuntimeErrors
Programs ==
    [runtime : RuntimeTypes, return_distinctness : BOOLEAN,
     main_function_signature : Signatures, body : {0, MaxBody},
     lowering : Lowerings]

\* Signatures and programs of the two-call specification.
PairSignatures ==
    {sig \in Signatures : Len(sig) <= 1 /\ \A i \in DOMAIN sig : sig[i].width = 1 /\ sig[i].public}
PairPrograms == {p \in Programs : p.main_function_signature \in PairSignatures /\ p.body = MaxBody}

None == [kind |-> "none"]
Moved == [kind |-> "moved"]

VARIABLES
    \* arguments of create_circuit
    program, enable_ssa_logging, enable_brillig_logging, show_output,
    \* position in create_circuit / optimize_into_acir
    pc,
    \* locals of create_circuit
    func_sig, generated, abi, public_abi, public_parameters, private_parameters,
    returned,
    \* parameters and locals of optimize_into_acir
    opt_program, allow_log_ops, print_ssa_passes, print_brillig_trace,
    abi_distinctness, ssa, brillig,
    \* observable effects: standard output, the stages executed, the
    \* arguments the ACIR generator was called with
    stdout, stages, acir_args,
    \* the previous call of create_circuit, when there was one
    prev

args == <<program, enable_ssa_logging, enable_brillig_logging, show_output>>
cc_locals == <<func_sig, generated, abi, public_abi, public_parameters, private_parameters, returned>>
opt_params == <<opt_program, allow_log_ops, print_ssa_passes, print_brillig_trace>>
opt_locals == <<abi_distinctness, ssa, brillig>>
effects == <<stdout, stages, acir_args>>
vars == <<args, pc, cc_locals, opt_params, opt_locals, effects, prev>>

\* ----------------------------------------------------------------- helpers
Range(s) == {s[i] : i \in DOMAIN s}

RECURSIVE SumWidths(_, _)
\* Number of witnesses of the first n parameters of a signature.
SumWidths(sig, n) == IF n = 0 THEN 0 ELSE SumWidths(sig, n - 1) + sig[n].width

\* ------------------------------------------------- collaborators (modelled)
\* ssa_gen::generate_ssa: the module generated from a program.
generate_ssa(p) == [kind |-> "ssa", program |-> p, passes |-> <<>>]

\* A pass consumes the module and returns a new one.
ApplyPass(s, name) == [s EXCEPT !.passes = Append(@, name)]
defunctionalize(s) == ApplyPass(s, "defunctionalize")
inline_functions(s) == ApplyPass(s, "inline_functions")
unroll_loops(s) == ApplyPass(s, "unroll_loops")
simplify_cfg(s) == ApplyPass(s, "simplify_cfg")
flatten_cfg(s) == ApplyPass(s, "flatten_cfg")
mem2reg(s) == ApplyPass(s, "mem2reg")
fold_constants(s) == ApplyPass(s, "fold_constants")
dead_instruction_elimination(s) == ApplyPass(s, "dead_instruction_elimination")

\* ssa.main().runtime()
main_runtime(s) == s.program.runtime

\* Ssa::to_brillig(&self, trace): the bytecode of a module.
to_brillig(s, trace) == [kind |-> "brillig", of |-> s, trace |-> trace]

\* Ssa::into_acir: parameters take the first witnesses in declaration order,
\* every instruction of the body one fresh witness and one opcode; the return
\* value is the last witness allocated, copied to a fresh witness when return
\* values must be distinct.
into_acir(s, b, distinct, log_ops) ==
    LET sig == s.program.main_function_signature
        nparam == SumWidths(sig, Len(sig))
        nbody == s.program.body
        base == nparam + nbody
        copy == IF distinct /\ base > 0 THEN 1 ELSE 0
        nops == nbody + copy
    IN  IF s.program.lowering # "ok"
        THEN [kind |-> "Err", error |-> s.program.lowering]
        ELSE [kind |-> "Ok",
              current_witness_index |-> base + copy,
              opcodes |-> [i \in 1..nops |-> [defines |-> nparam + i, module |-> s.passes]],
              return_witnesses |-> IF base = 0 THEN <<>> ELSE <<base + copy>>,
              locations |-> [i \in 1..nops |-> [opcode |-> i, span |-> i]]]

\* abi_gen::gen_abi: parameter i owns the witnesses that follow those of the
\* parameters before it, starting at witness 1.
gen_abi(sig, return_witnesses) ==
    [kind |-> "abi",
     parameters |-> [i \in 1..Len(sig) |-> sig[i]],
     param_witnesses |->
        [i \in 1..Len(sig) |-> [k \in 1..sig[i].width |-> SumWidths(sig, i - 1) + k]],
     return_witnesses |-> return_witnesses]

\* Abi::public_abi: the ABI restricted to the parameters declared public.
PublicAbi(a) ==
    LET pub == {i \in DOMAIN a.parameters : a.parameters[i].public}
    IN  [kind |-> "abi",
         parameters |-> [i \in pub |-> a.parameters[i]],
         param_witnesses |-> [i \in pub |-> a.param_witnesses[i]],
         return_witnesses |-> a.return_witnesses]

\* DebugInfo::new
NewDebugInfo(locations) == [locations |-> locations]

\* ---------------------------------------------------------- faulty variants
\* Variants of the definitions below, each changed the way a slip in the code
\* would change it; the properties are expected to tell them from the code.

\* Ssa::print that marks the module it printed.
printAltering(s, flag, msg) == IF flag THEN ApplyPass(s, msg) ELSE s

\* Ssa::print that ignores its flag.
printlnAlways(out, s, flag, msg) == Append(out, [msg |-> msg, module |-> s])

\* ------------------------------------------------------------- Ssa::print
\* The value Ssa::print returns: the module it was given.
print(s, flag, msg) == s

\* What Ssa::print writes: the message and the module, when the flag is set.
println(out, s, flag, msg) ==
    IF flag THEN Append(out, [msg |-> msg, module |-> s]) ELSE out

\* ------------------------------------------------------------------- Init
NoCall == [kind |-> "none"]

InitCall(p, ssa_logging, brillig_logging, output) ==
    /\ program = p
    /\ enable_ssa_logging = ssa_logging
    /\ enable_brillig_logging = brillig_logging
    /\ show_output = output
    /\ pc = "create_circuit"
    /\ func_sig = None /\ generated = None /\ abi = None /\ public_abi = None
    /\ public_parameters = {} /\ private_parameters = {}
    /\ returned = None
    /\ opt_program = None
    /\ allow_log_ops = FALSE /\ print_ssa_passes = FALSE /\ print_brillig_trace = FALSE
    /\ abi_distinctness = FALSE
    /\ ssa = None /\ brillig = None
    /\ stdout = <<>> /\ stages = <<>> /\ acir_args = None

Init ==
    /\ \E p \in Programs, l \in BOOLEAN, b \in BOOLEAN, o \in BOOLEAN : InitCall(p, l, b, o)
    /\ prev = NoCall

\* ---------------------------------------------------------- create_circuit
\* The call of line 81 with show_output and enable_ssa_logging exchanged.
OptimizeIntoAcirParamsSwapped(output, ssa_logging, brillig_logging) ==
    [allow_log_ops |-> ssa_logging,
     print_ssa_passes |-> output,
     print_brillig_trace |-> brillig_logging]

\* Line 81: the parameters of optimize_into_acir as create_circuit binds them,
\* optimize_into_acir(program, show_output, enable_ssa_logging,
\* enable_brillig_logging) against the signature at lines 36-41.
OptimizeIntoAcirParams(output, ssa_logging, brillig_logging) ==
    [allow_log_ops |-> output,
     print_ssa_passes |-> ssa_logging,
     print_brillig_trace |-> brillig_logging]

\* Lines 79-81: clone the signature, call optimize_into_acir with the program
\* and the three flags.
CreateCircuit ==
    /\ pc = "create_circuit"
    /\ func_sig' = program.main_function_signature
    /\ opt_program' = program
    /\ program' = Moved
    /\ LET params == OptimizeIntoAcirParams(show_output, enable_ssa_logging,
                                            enable_brillig_logging)
       IN  /\ allow_log_ops' = params.allow_log_ops
           /\ print_ssa_passes' = params.print_ssa_passes
           /\ print_brillig_trace' = params.print_brillig_trace
    /\ pc' = "read_distinctness"
    /\ UNCHANGED <<enable_ssa_logging, enable_brillig_logging, show_output>>
    /\ UNCHANGED <<generated, abi, public_abi, public_parameters, private_parameters, returned>>
    /\ UNCHANGED <<opt_locals, effects, prev>>

\* ------------------------------------------------------ optimize_into_acir
\* Line 42.
ReadDistinctness ==
    /\ pc = "read_distinctness"
    /\ abi_distinctness' = opt_program.return_distinctness
    /\ pc' = "generate_ssa"
    /\ UNCHANGED <<args, cc_locals, opt_params, ssa, brillig, effects, prev>>

\* Lines 43-44.
GenerateSsa ==
    /\ pc = "generate_ssa"
    /\ LET s == generate_ssa(opt_program)
       IN  /\ ssa' = print(s, print_ssa_passes, "Initial SSA:")
           /\ stdout' = println(stdout, s, print_ssa_passes, "Initial SSA:")
    /\ opt_program' = Moved
    /\ stages' = Append(stages, "generate_ssa")
    /\ pc' = "defunctionalize"
    /\ UNCHANGED <<args, cc_locals, allow_log_ops, print_ssa_passes, print_brillig_trace>>
    /\ UNCHANGED <<abi_distinctness, brillig, acir_args, prev>>

\* A pass of the chain followed by its print: the step at `at` applies
\* `result` and moves to `next`.
PassStep(at, result, stage, msg, next) ==
    /\ pc = at
    /\ ssa' = print(result, print_ssa_passes, msg)
    /\ stdout' = println(stdout, result, print_ssa_passes, msg)
    /\ stages' = Append(stages, stage)
    /\ pc' = next
    /\ UNCHANGED <<args, cc_locals, opt_params, abi_distinctness, brillig, acir_args, prev>>

\* Lines 45-46.
Defunctionalize ==
    PassStep("defunctionalize", defunctionalize(ssa), "defunctionalize",
             "After Defunctionalization:", "to_brillig")

\* A Brillig lowering that takes the module apart while lowering it.
ToBrilligConsuming ==
    /\ pc = "to_brillig"
    /\ brillig' = to_brillig(ssa, print_brillig_trace)
    /\ ssa' = ApplyPass(ssa, "to_brillig")
    /\ stages' = Append(stages, "to_brillig")
    /\ pc' = "runtime"
    /\ UNCHANGED <<args, cc_locals, opt_params, abi_distinctness, stdout, acir_args, prev>>

\* Line 48.
ToBrillig ==
    /\ pc = "to_brillig"
    /\ brillig' = to_brillig(ssa, print_brillig_trace)
    /\ stages' = Append(stages, "to_brillig")
    /\ pc' = "runtime"
    /\ UNCHANGED <<args, cc_locals, opt_params, abi_distinctness, ssa, stdout, acir_args, prev>>

\* The optimizing passes run whatever the runtime of main.
RunsOptimizingPassesAlways(s) == TRUE

\* The optimizing passes are skipped while the Brillig trace is on.
RunsOptimizingPassesUnlessTracing(s) == main_runtime(s) = "Acir" /\ ~print_brillig_trace

\* Line 49.
RunsOptimizingPasses(s) == main_runtime(s) = "Acir"

CheckRuntime ==
    /\ pc = "runtime"
    /\ pc' = IF RunsOptimizingPasses(ssa) THEN "inline_functions" ELSE "into_acir"
    /\ UNCHANGED <<args, cc_locals, opt_params, opt_locals, effects, prev>>

\* Lines 51-52.
InlineFunctions ==
    PassStep("inline_functions", inline_functions(ssa), "inline_functions",
             "After Inlining:", "unroll_loops")

\* Lines 53-54.
UnrollLoops ==
    PassStep("unroll_loops", unroll_loops(ssa), "unroll_loops",
             "After Unrolling:", "simplify_cfg")

\* Lines 55-56.
SimplifyCfg ==
    PassStep("simplify_cfg", simplify_cfg(ssa), "simplify_cfg",
             "After Simplifying:", "flatten_cfg")

\* The chain without flatten_cfg: Mem2Reg runs in its place.
FlattenCfgLeftOut ==
    PassStep("flatten_cfg", mem2reg(ssa), "mem2reg", "After Mem2Reg:", "fold_constants")

\* Lines 57-58.
FlattenCfg ==
    PassStep("flatten_cfg", flatten_cfg(ssa), "flatten_cfg",
             "After Flattening:", "mem2reg")

\* Lines 59-60.
Mem2Reg ==
    PassStep("mem2reg", mem2reg(ssa), "mem2reg",
             "After Mem2Reg:", "fold_constants")

\* Lines 61-62.
FoldConstants ==
    PassStep("fold_constants", fold_constants(ssa), "fold_constants",
             "After Constant Folding:", "dead_instruction_elimination")

\* Lines 63-64.
DeadInstructionElimination ==
    PassStep("dead_instruction_elimination", dead_instruction_elimination(ssa),
             "dead_instruction_elimination",
             "After Dead Instruction Elimination:", "into_acir")

\* Line 66: the arguments of Ssa::into_acir.
IntoAcirArgs(s, b, distinct, log_ops) ==
    [kind |-> "call", module |-> s, brillig |-> b,
     abi_distinctness |-> distinct, allow_log_ops |-> log_ops]

\* Line 66: the final module is consumed by the ACIR generator, whose result
\* is the result of optimize_into_acir.
IntoAcir ==
    /\ pc = "into_acir"
    /\ acir_args' = IntoAcirArgs(ssa, brillig, abi_distinctness, allow_log_ops)
    /\ generated' = into_acir(acir_args'.module, acir_args'.brillig,
                              acir_args'.abi_distinctness, acir_args'.allow_log_ops)
    /\ ssa' = Moved
    /\ brillig' = Moved
    /\ stages' = Append(stages, "into_acir")
    /\ pc' = "question_mark"
    /\ UNCHANGED <<args, func_sig, abi, public_abi, public_parameters, private_parameters, returned>>
    /\ UNCHANGED <<opt_params, abi_distinctness, stdout, prev>>

\* ------------------------------------------- create_circuit, after the call
\* An error of optimize_into_acir replaced by an empty circuit.
QuestionMarkDefault ==
    /\ pc = "question_mark"
    /\ IF generated.kind = "Err"
       THEN /\ returned' = [kind |-> "Ok",
                            circuit |-> [current_witness_index |-> 0, opcodes |-> <<>>,
                                         private_parameters |-> {}, public_parameters |-> {},
                                         return_values |-> {}],
                            debug_info |-> NewDebugInfo(<<>>),
                            abi |-> gen_abi(func_sig, <<>>)]
            /\ pc' = "done"
       ELSE /\ returned' = returned
            /\ pc' = "gen_abi"
    /\ UNCHANGED <<args, func_sig, generated, abi, public_abi, public_parameters, private_parameters>>
    /\ UNCHANGED <<opt_params, opt_locals, effects, prev>>

\* Lines 80-81, the `?`: an error of optimize_into_acir is returned as it is;
\* otherwise the generated ACIR is taken apart and create_circuit goes on.
QuestionMark ==
    /\ pc = "question_mark"
    /\ IF generated.kind = "Err"
       THEN /\ returned' = [kind |-> "Err", error |-> generated.error]
            /\ pc' = "done"
       ELSE /\ returned' = returned
            /\ pc' = "gen_abi"
    /\ UNCHANGED <<args, func_sig, generated, abi, public_abi, public_parameters, private_parameters>>
    /\ UNCHANGED <<opt_params, opt_locals, effects, prev>>

\* Lines 83-84.
GenAbi ==
    /\ pc = "gen_abi"
    /\ abi' = gen_abi(func_sig, generated.return_witnesses)
    /\ public_abi' = PublicAbi(abi')
    /\ pc' = "partition"
    /\ UNCHANGED <<args, func_sig, generated, public_parameters, private_parameters, returned>>
    /\ UNCHANGED <<opt_params, opt_locals, effects, prev>>

\* param_witnesses.values().flatten().copied().collect() into a set.
CollectWitnesses(param_witnesses) ==
    UNION {Range(param_witnesses[i]) : i \in DOMAIN param_witnesses}

\* Lines 86-87.
PublicParameters(pub_abi) == CollectWitnesses(pub_abi.param_witnesses)

\* Lines 89-90.
AllParameters(a) == CollectWitnesses(a.param_witnesses)

\* The private set without the set difference.
PrivateParametersAll(all_parameters, public) == all_parameters

\* Line 91.
PrivateParameters(all_parameters, public) == all_parameters \ public

\* Lines 86-91.
PartitionWitnesses ==
    /\ pc = "partition"
    /\ public_parameters' = PublicParameters(public_abi)
    /\ private_parameters' = PrivateParameters(AllParameters(abi), public_parameters')
    /\ pc' = "assemble"
    /\ UNCHANGED <<args, func_sig, generated, abi, public_abi, returned>>
    /\ UNCHANGED <<opt_params, opt_locals, effects, prev>>

\* Line 93.
ReturnValues(return_witnesses) == Range(return_witnesses)

\* A circuit record whose witness counter is one past the generated one.
MakeCircuitRenumbered(current_witness_index, opcodes, private, public, return_values) ==
    [current_witness_index |-> current_witness_index + 1,
     opcodes |-> opcodes,
     private_parameters |-> private,
     public_parameters |-> public,
     return_values |-> return_values]

\* Lines 95-101.
MakeCircuit(current_witness_index, opcodes, private, public, return_values) ==
    [current_witness_index |-> current_witness_index,
     opcodes |-> opcodes,
     private_parameters |-> private,
     public_parameters |-> public,
     return_values |-> return_values]

\* Lines 93-104.
Assemble ==
    /\ pc = "assemble"
    /\ returned' =
         [kind |-> "Ok",
          circuit |-> MakeCircuit(generated.current_witness_index, generated.opcodes,
                                  private_parameters, public_parameters,
                                  ReturnValues(generated.return_witnesses)),
          debug_info |-> NewDebugInfo(generated.locations),
          abi |-> abi]
    /\ pc' = "done"
    /\ UNCHANGED <<args, func_sig, generated, abi, public_abi, public_parameters, private_parameters>>
    /\ UNCHANGED <<opt_params, opt_locals, effects, prev>>

\* ------------------------------------------------------------ specification
Next ==
    \/ CreateCircuit
    \/ ReadDistinctness
    \/ GenerateSsa
    \/ Defunctionalize
    \/ ToBrillig
    \/ CheckRuntime
    \/ InlineFunctions
    \/ UnrollLoops
    \/ SimplifyCfg
    \/ FlattenCfg
    \/ Mem2Reg
    \/ FoldConstants
    \/ DeadInstructionElimination
    \/ IntoAcir
    \/ QuestionMark
    \/ GenAbi
    \/ PartitionWitnesses
    \/ Assemble

Spec == Init /\ [][Next]_vars

\* ------------------------------------------------ two calls, one after the other
\* What a finished call leaves to compare the next one with.
Finished ==
    [kind |-> "call",
     program |-> acir_args.module.program,
     enable_ssa_logging |-> enable_ssa_logging,
     enable_brillig_logging |-> enable_brillig_logging,
     show_output |-> show_output,
     stages |-> stages,
     acir_args |-> acir_args,
     generated |-> generated,
     returned |-> returned,
     stdout |-> stdout]

\* create_circuit is called a second time once the first call has returned.
CallAgain ==
    /\ pc = "done"
    /\ prev = NoCall
    /\ prev' = Finished
    /\ \E p \in PairPrograms, l \in BOOLEAN, b \in BOOLEAN, o \in BOOLEAN :
          /\ program' = p
          /\ enable_ssa_logging' = l
          /\ enable_brillig_logging' = b
          /\ show_output' = o
    /\ pc' = "create_circuit"
    /\ func_sig' = None /\ generated' = None /\ abi' = None /\ public_abi' = None
    /\ public_parameters' = {} /\ private_parameters' = {}
    /\ returned' = None
    /\ opt_program' = None
    /\ allow_log_ops' = FALSE /\ print_ssa_passes' = FALSE /\ print_brillig_trace' = FALSE
    /\ abi_distinctness' = FALSE
    /\ ssa' = None /\ brillig' = None
    /\ stdout' = <<>> /\ stages' = <<>> /\ acir_args' = None

InitPair ==
    /\ \E p \in PairPrograms, l \in BOOLEAN, b \in BOOLEAN, o \in BOOLEAN : InitCall(p, l, b, o)
    /\ prev = NoCall

NextPair == Next \/ CallAgain

SpecPair == InitPair /\ [][NextPair]_vars

\* ------------------------------------------------------------------ claims
\* The program of the call in progress, wherever the call has moved it.
CurrentProgram ==
    CASE pc = "create_circuit" -> program
      [] pc \in {"read_distinctness", "generate_ssa"} -> opt_program
      [] ssa.kind = "ssa" -> ssa.program
      [] OTHER -> acir_args.module.program

IsPrefix(s, t) == Len(s) <= Len(t) /\ SubSeq(t, 1, Len(s)) = s
Count(s, x) == Cardinality({i \in DOMAIN s : s[i] = x})

\* The seven optimizing passes, in the order the specification fixes.
OptimizingPasses ==
    <<"inline_functions", "unroll_loops", "simplify_cfg", "flatten_cfg", "mem2reg",
      "fold_constants", "dead_instruction_elimination">>
Position(s, x) == CHOOSE i \in DOMAIN s : s[i] = x

\* Positions at which optimize_into_acir has returned.
AfterOptimize == {"question_mark", "gen_abi", "partition", "assemble", "done"}

\* C2: when main is circuit-constrained the optimizing passes run each exactly
\* once in the order Inliner, Loop Unroller, CFG Simplifier, CFG Flattener,
\* Mem2Reg, Constant Folder, Dead Instruction Eliminator: the passes applied so
\* far are always a prefix of that order, and the module handed to the ACIR
\* generator has had exactly these seven applied after defunctionalization, the
\* Dead Instruction Eliminator being the stage right before the ACIR generator.
C2_FixedPassOrder ==
    /\ ssa.kind = "ssa" => IsPrefix(ssa.passes, <<"defunctionalize">> \o OptimizingPasses)
    /\ (acir_args.kind = "call" /\ CurrentProgram.runtime = "Acir") =>
          /\ acir_args.module.passes = <<"defunctionalize">> \o OptimizingPasses
          /\ stages = <<"generate_ssa", "defunctionalize", "to_brillig">>
                        \o OptimizingPasses \o <<"into_acir">>
          /\ \A q \in Range(OptimizingPasses) : Count(stages, q) = 1
          /\ Position(stages, "unroll_loops") < Position(stages, "flatten_cfg")
          /\ Position(stages, "flatten_cfg") < Position(stages, "mem2reg")
          /\ Position(stages, "mem2reg") < Position(stages, "fold_constants")
          /\ Position(stages, "flatten_cfg") < Position(stages, "fold_constants")
          /\ Position(stages, "into_acir") =
                Position(stages, "dead_instruction_elimination") + 1

\* A circuit-constrained main has been compiled to a circuit.
C2_Witness ==
    /\ pc = "done"
    /\ returned.kind = "Ok"
    /\ CurrentProgram.runtime = "Acir"
    /\ Len(acir_args.module.passes) = Len(OptimizingPasses) + 1

\* The module as defunctionalization left it.
Defunctionalized(p) == defunctionalize(generate_ssa(p))

\* C3: the optimizing passes run if and only if main's runtime is Acir; for an
\* unconstrained main none of the seven runs and the ACIR generator receives
\* the defunctionalized module as it is.  In both cases the ACIR generator runs
\* exactly once and is the last stage.
C3_PipelineOnlyForAcir ==
    /\ \A q \in Range(OptimizingPasses) :
          Count(stages, q) > 0 => CurrentProgram.runtime = "Acir"
    /\ Count(stages, "into_acir") = IF pc \in AfterOptimize THEN 1 ELSE 0
    /\ pc \in AfterOptimize => stages[Len(stages)] = "into_acir"
    /\ acir_args.kind = "call" <=> pc \in AfterOptimize
    /\ (acir_args.kind = "call" /\ CurrentProgram.runtime # "Acir") =>
          /\ \A q \in Range(OptimizingPasses) : Count(stages, q) = 0
          /\ acir_args.module = Defunctionalized(CurrentProgram)
          /\ stages = <<"generate_ssa", "defunctionalize", "to_brillig", "into_acir">>
    /\ (acir_args.kind = "call" /\ CurrentProgram.runtime = "Acir") =>
          \A q \in Range(OptimizingPasses) : Count(stages, q) = 1

\* An unconstrained main has been compiled: the ACIR generator ran on the
\* defunctionalized module.
C3_Witness ==
    /\ pc = "done"
    /\ returned.kind = "Ok"
    /\ CurrentProgram.runtime = "Brillig"
    /\ acir_args.module.passes = <<"defunctionalize">>

\* C4: the Brillig lowering runs exactly once whatever the runtime of main,
\* third, after SSA generation and defunctionalization and before any optimizing
\* pass; it lowers the module no optimizing pass has touched and leaves that
\* module as it was; its result is the Brillig argument of the ACIR generator.
C4_BrilligOnceBeforePasses ==
    LET lowered == pc \notin {"create_circuit", "read_distinctness", "generate_ssa",
                              "defunctionalize", "to_brillig"}
    IN  /\ Count(stages, "to_brillig") = IF lowered THEN 1 ELSE 0
        /\ lowered => SubSeq(stages, 1, 3) = <<"generate_ssa", "defunctionalize", "to_brillig">>
        /\ brillig.kind = "brillig" =>
              /\ brillig.of = Defunctionalized(CurrentProgram)
              /\ ssa.kind = "ssa"
              /\ ssa.program = brillig.of.program
              /\ IsPrefix(brillig.of.passes, ssa.passes)
        /\ pc = "runtime" => ssa = brillig.of
        /\ acir_args.kind = "call" =>
              /\ acir_args.brillig.kind = "brillig"
              /\ acir_args.brillig.of = Defunctionalized(CurrentProgram)

\* Both kinds of main reach the ACIR generator with the Brillig lowering of the
\* defunctionalized module; the witness is the circuit-constrained one, where
\* seven passes ran after the lowering.
C4_Witness ==
    /\ pc = "done"
    /\ CurrentProgram.runtime = "Acir"
    /\ Count(stages, "to_brillig") = 1
    /\ acir_args.brillig.of.passes = <<"defunctionalize">>
    /\ Len(acir_args.module.passes) = Len(OptimizingPasses) + 1

\* C1: in every circuit create_circuit returns, the public and the private
\* parameter witnesses are disjoint and together are the parameter witnesses
\* of the ABI; the private ones are all of them but the public ones, which are
\* among them.  Three one-witness parameters of which one is public give one
\* public witness, two private ones, three in all.
C1_WitnessPartition ==
    (pc = "done" /\ returned.kind = "Ok") =>
        LET public == returned.circuit.public_parameters
            private == returned.circuit.private_parameters
            all_parameters == CollectWitnesses(returned.abi.param_witnesses)
            sig == func_sig
        IN  /\ public \cap private = {}
            /\ public \cup private = all_parameters
            /\ public \subseteq all_parameters
            /\ private = all_parameters \ public
            /\ Cardinality(all_parameters) = SumWidths(sig, Len(sig))
            /\ (/\ Len(sig) = 3
                /\ \A i \in DOMAIN sig : sig[i].width = 1
                /\ Cardinality({i \in DOMAIN sig : sig[i].public}) = 1) =>
                  /\ Cardinality(public) = 1
                  /\ Cardinality(private) = 2
                  /\ Cardinality(public \cup private) = 3

\* A circuit for a main with three one-witness parameters, one of them public.
C1_Witness ==
    /\ pc = "done"
    /\ returned.kind = "Ok"
    /\ Len(func_sig) = 3
    /\ \A i \in DOMAIN func_sig : func_sig[i].width = 1
    /\ Cardinality({i \in DOMAIN func_sig : func_sig[i].public}) = 1
    /\ Cardinality(returned.circuit.public_parameters) = 1
    /\ Cardinality(returned.circuit.private_parameters) = 2

\* C6: when optimize_into_acir returns an error, create_circuit returns that
\* error and nothing else happens: no ABI is generated, no witness set is
\* computed, no circuit is assembled.  create_circuit returns a circuit only
\* when the ACIR generator succeeded.
C6_NoPartialCircuit ==
    /\ generated.kind = "Err" =>
          /\ pc \in {"question_mark", "done"}
          /\ abi = None /\ public_abi = None
          /\ public_parameters = {} /\ private_parameters = {}
          /\ pc = "done" => returned = [kind |-> "Err", error |-> generated.error]
          /\ pc = "done" => returned.error = CurrentProgram.lowering
    /\ returned.kind = "Ok" => generated.kind = "Ok"
    /\ pc \in {"gen_abi", "partition", "assemble"} => generated.kind = "Ok"
    /\ pc = "done" => returned.kind \in {"Ok", "Err"}

\* create_circuit has returned the error of the ACIR generator.
C6_Witness ==
    /\ pc = "done"
    /\ generated.kind = "Err"
    /\ returned.kind = "Err"
    /\ returned.error = "NoCircuitRepresentation"
    /\ abi = None

\* C7: the circuit record carries what the ACIR generator produced: its
\* witness counter and opcode list are the generated ones, its return values
\* are exactly the generated return witnesses, the debug info holds the
\* generated location table, and every public or private parameter witness is
\* a parameter witness of the ABI.
C7_AssemblerKeepsAcir ==
    /\ generated.kind = "Ok" =>
          generated = into_acir(acir_args.module, acir_args.brillig,
                                acir_args.abi_distinctness, acir_args.allow_log_ops)
    /\ (pc = "done" /\ returned.kind = "Ok") =>
          /\ returned.circuit.current_witness_index = generated.current_witness_index
          /\ returned.circuit.opcodes = generated.opcodes
          /\ \A w \in returned.circuit.return_values :
                \E i \in DOMAIN generated.return_witnesses : generated.return_witnesses[i] = w
          /\ \A i \in DOMAIN generated.return_witnesses :
                generated.return_witnesses[i] \in returned.circuit.return_values
          /\ returned.debug_info.locations = generated.locations
          /\ \A w \in returned.circuit.public_parameters \cup returned.circuit.private_parameters :
                \E i \in DOMAIN returned.abi.param_witnesses :
                    \E k \in DOMAIN returned.abi.param_witnesses[i] :
                        returned.abi.param_witnesses[i][k] = w

\* A circuit with opcodes, a return witness and parameters has been assembled.
C7_Witness ==
    /\ pc = "done"
    /\ returned.kind = "Ok"
    /\ returned.circuit.opcodes # <<>>
    /\ returned.circuit.return_values # {}
    /\ returned.circuit.public_parameters # {}
    /\ returned.circuit.private_parameters # {}

\* The stages followed by a dump, in pipeline order, and the headings of
\* their dumps.
DumpedStages == <<"generate_ssa", "defunctionalize">> \o OptimizingPasses
Headings ==
    <<"Initial SSA:", "After Defunctionalization:", "After Inlining:", "After Unrolling:",
      "After Simplifying:", "After Flattening:", "After Mem2Reg:",
      "After Constant Folding:", "After Dead Instruction Elimination:">>
\* The module as the k-th dumped stage leaves it.
ModuleAfter(p, k) ==
    [kind |-> "ssa", program |-> p,
     passes |-> SubSeq(<<"defunctionalize">> \o OptimizingPasses, 1, k - 1)]
DumpedSoFar == Cardinality({i \in DOMAIN stages : stages[i] \in Range(DumpedStages)})

\* C9: with the print flag set there is exactly one dump after each stage that
\* ran, in stage order, headed by that stage's heading and showing the module
\* as that stage left it: nine dumps for a circuit-constrained main, two for an
\* unconstrained one.  With the flag unset nothing is dumped.
C9_OneDumpPerStage ==
    /\ ~enable_ssa_logging => stdout = <<>>
    /\ enable_ssa_logging =>
          /\ Len(stdout) = DumpedSoFar
          /\ \A k \in DOMAIN stdout :
                /\ stdout[k].msg = Headings[k]
                /\ stdout[k].module = ModuleAfter(CurrentProgram, k)
          /\ pc \in AfterOptimize =>
                Len(stdout) = IF CurrentProgram.runtime = "Acir" THEN 9 ELSE 2

\* Nine dumps of a circuit-constrained main, the last one showing the module
\* the Dead Instruction Eliminator left.
C9_Witness ==
    /\ pc = "done"
    /\ enable_ssa_logging
    /\ CurrentProgram.runtime = "Acir"
    /\ Len(stdout) = 9
    /\ stdout[9].msg = "After Dead Instruction Elimination:"
    /\ stdout[9].module = acir_args.module

\* Both calls have returned.
BothDone == prev.kind = "call" /\ pc = "done"

\* C5: the print flag does not alter the compilation: two calls on the same
\* program that differ at most in the print flag run the same stages, hand the
\* same module and Brillig to the ACIR generator and return the same result;
\* and whatever the flag, the module after a stage and its print is the module
\* the stage produced.
C5_PrintFlagIsInert ==
    /\ ssa.kind = "ssa" =>
          ssa = [kind |-> "ssa", program |-> CurrentProgram,
                 passes |-> SubSeq(<<"defunctionalize">> \o OptimizingPasses, 1, DumpedSoFar - 1)]
    /\ (/\ BothDone
        /\ prev.program = CurrentProgram
        /\ prev.show_output = show_output
        /\ prev.enable_brillig_logging = enable_brillig_logging) =>
          /\ prev.stages = stages
          /\ prev.acir_args = acir_args
          /\ prev.generated = generated
          /\ prev.returned = returned

\* The same circuit-constrained program compiled with and without the dumps.
C5_Witness ==
    /\ BothDone
    /\ prev.program = CurrentProgram
    /\ prev.show_output = show_output
    /\ prev.enable_brillig_logging = enable_brillig_logging
    /\ prev.enable_ssa_logging # enable_ssa_logging
    /\ CurrentProgram.runtime = "Acir"
    /\ returned.kind = "Ok"
    /\ Len(prev.stdout) + Len(stdout) = 9

C10_FlagsReachTheirStage ==
    /\ pc \notin {"create_circuit"} =>
          /\ allow_log_ops = show_output
          /\ print_ssa_passes = enable_ssa_logging
          /\ print_brillig_trace = enable_brillig_logging
    /\ pc \notin {"create_circuit", "read_distinctness"} =>
          abi_distinctness = CurrentProgram.return_distinctness
    /\ brillig.kind = "brillig" => brillig.trace = enable_brillig_logging
    /\ acir_args.kind = "call" =>
          /\ acir_args.allow_log_ops = show_output
          /\ acir_args.abi_distinctness = CurrentProgram.return_distinctness
          /\ acir_args.brillig.trace = enable_brillig_logging
    /\ stdout # <<>> => enable_ssa_logging
    /\ (enable_ssa_logging /\ DumpedSoFar > 0) => stdout # <<>>
    /\ (BothDone /\ prev.program = CurrentProgram) =>
          /\ prev.acir_args.module = acir_args.module
          /\ prev.acir_args.brillig.of = acir_args.brillig.of
          /\ prev.enable_brillig_logging = enable_brillig_logging =>
                prev.acir_args.brillig = acir_args.brillig
          /\ prev.enable_ssa_logging = enable_ssa_logging => prev.stdout = stdout

\* A call in which show_output differs from both logging flags and the
\* distinctness flag from show_output has reached the ACIR generator.
C10_Witness ==
    /\ pc = "done"
    /\ show_output /\ ~enable_ssa_logging /\ enable_brillig_logging
    /\ ~CurrentProgram.return_distinctness
    /\ acir_args.allow_log_ops
    /\ ~acir_args.abi_distinctness
    /\ acir_args.brillig.trace
    /\ stdout = <<>>

====
